---- MODULE Spec2Model ----
(***************************************************************************)
(* KiCad library manager front-ends: the command-line front-end            *)
(* (cli_main.py) and the desktop GUI (gui_app.py) that shells out to it.    *)
(*                                                                         *)
(* Text is modelled as a sequence of lexemes: "/in/a.zip" is               *)
(* <<"/", "in", "/", "a", ".zip">>, "--input_folder" is                    *)
(* <<"-", "-", "input_folder">>, the empty string is <<>>.  A text of      *)
(* several lines (stdout, the log) is a sequence of such lines.            *)
(*                                                                         *)
(* Left out: the widgets' colours and sizes, the file count text and the   *)
(* scroll counter of the log, which no handler reads back.                 *)
(***************************************************************************)
EXTENDS Integers, Sequences, FiniteSets, TLC

\* ------------------------------------------------------------------ bounds
\* handlers that write to the log are enabled while the log is shorter
MaxLog == 3

\* ------------------------------------------------------------ text helpers
None == <<"<None>">>

Last(s) == s[Len(s)]

Front(s) == SubSeq(s, 1, Len(s) - 1)

Range(s) == {s[i] : i \in 1..Len(s)}

\* Python truthiness of an Optional[str]
Truthy(v) == v # None /\ v # <<>>

\* ------------------------------------------------------------- pathlib.Path
\* a Path is [root, parts]: parts are the components, each a lexeme sequence
RECURSIVE SplitSep(_, _)
SplitSep(s, cur) ==
    IF s = <<>> THEN <<cur>>
    ELSE IF Head(s) = "/" THEN <<cur>> \o SplitSep(Tail(s), <<>>)
    ELSE SplitSep(Tail(s), cur \o <<Head(s)>>)

KeptPart(c) == c # <<>> /\ c # <<".">>

\* Path(f): splits at the separators, drops empty and "." components
PathOf(s) ==
    [root |-> s # <<>> /\ Head(s) = "/",
     parts |-> SelectSeq(SplitSep(s, <<>>), KeptPart)]

RECURSIVE JoinSep(_)
JoinSep(parts) ==
    IF parts = <<>> THEN <<>>
    ELSE IF Len(parts) = 1 THEN parts[1]
    ELSE parts[1] \o <<"/">> \o JoinSep(Tail(parts))

\* str(p)
StrOf(p) ==
    IF p.parts = <<>> THEN (IF p.root THEN <<"/">> ELSE <<".">>)
    ELSE (IF p.root THEN <<"/">> ELSE <<>>) \o JoinSep(p.parts)

\* p.name
NameOf(p) == IF p.parts = <<>> THEN <<>> ELSE Last(p.parts)

\* p.parent
ParentOf(p) == IF p.parts = <<>> THEN p ELSE [p EXCEPT !.parts = Front(p.parts)]

\* p / name
Child(p, n) == [p EXCEPT !.parts = p.parts \o <<n>>]

\* ------------------------------------------------------------- file system
DirIn == [root |-> TRUE, parts |-> << <<"in">> >>]

DirLib == [root |-> TRUE, parts |-> << <<"lib">> >>]

DirEmpty == [root |-> TRUE, parts |-> << <<"empty">> >>]

\* the working directory of both programs
Cwd == DirLib

\* the directories that exist, each with the names in it
Listing ==
    (DirIn :> << <<"a", ".zip">>, <<"notes", ".txt">>, <<"b", ".zip">> >>)
    @@ (DirLib :> << <<"c", ".zip">>, <<"d", ".zip">> >>)
    @@ (DirEmpty :> << <<"readme", ".txt">> >>)

\* p.resolve()
Resolve(p) == IF p.root THEN p ELSE [root |-> TRUE, parts |-> Cwd.parts \o p.parts]

IsDir(p) == Resolve(p) \in DOMAIN Listing

Exists(p) ==
    \/ IsDir(p)
    \/ /\ p.parts # <<>>
       /\ IsDir(ParentOf(Resolve(p)))
       /\ NameOf(p) \in Range(Listing[ParentOf(Resolve(p))])

IsZipName(n) == n # <<>> /\ Last(n) = ".zip" /\ Len(n) >= 1

RECURSIVE ChildrenOf(_, _)
ChildrenOf(folder, names) ==
    IF names = <<>> THEN <<>>
    ELSE <<Child(folder, Head(names))>> \o ChildrenOf(folder, Tail(names))

\* list(folder.glob("*.zip")): the matching entries as children of folder
GlobZip(folder) ==
    IF IsDir(folder)
    THEN ChildrenOf(folder, SelectSeq(Listing[Resolve(folder)], IsZipName))
    ELSE <<>>

\* library_manager.INPUT_ZIP_FOLDER
INPUT_ZIP_FOLDER == DirIn

\* ------------------------------------------------- cli_main.parse_arguments
TokProcess == <<"process">>

TokPurge == <<"purge">>

OptInputFolder == <<"-", "-", "input_folder">>

OptHelp == {<<"-", "h">>, <<"-", "-", "help">>}

DashDash == <<"-", "-">>

\* choices=['process', 'purge'] of the positional 'action'
ActionChoices == {TokProcess, TokPurge}

\* argparse: is the argument an option string ("O") or a positional ("A")
Classify(t) ==
    IF t = <<>> THEN "A"
    ELSE IF Head(t) # "-" THEN "A"
    ELSE IF t = OptInputFolder \/ t \in OptHelp THEN "O"
    ELSE IF Len(t) = 1 THEN "A"
    ELSE "O"

\* the argument pattern: everything after the first "--" is positional
RECURSIVE Classes(_, _)
Classes(argv, afterDD) ==
    IF argv = <<>> THEN <<>>
    ELSE IF afterDD THEN <<"A">> \o Classes(Tail(argv), TRUE)
    ELSE IF Head(argv) = DashDash THEN <<"-">> \o Classes(Tail(argv), TRUE)
    ELSE <<Classify(Head(argv))>> \o Classes(Tail(argv), FALSE)

\* the last index of the run of positionals (and "--") that starts at i
RECURSIVE ChunkEnd(_, _)
ChunkEnd(cls, i) ==
    IF i <= Len(cls) /\ cls[i] \in {"A", "-"} THEN ChunkEnd(cls, i + 1) ELSE i - 1

RECURSIVE ChunkValues(_, _, _, _)
ChunkValues(argv, cls, i, j) ==
    IF i > j THEN <<>>
    ELSE (IF cls[i] = "A" THEN <<argv[i]>> ELSE <<>>) \o ChunkValues(argv, cls, i + 1, j)

ParseExit(code) ==
    [kind |-> "exit", code |-> code, action |-> None, input_folder |-> None,
     zip_files |-> <<>>]

ParseOk(st) ==
    [kind |-> "ok", code |-> 0, action |-> st.action,
     input_folder |-> st.input_folder, zip_files |-> st.zip_files]

\* the parser of parse_arguments(): positional action (one of the choices),
\* option --input_folder VALUE, positional zip_files (nargs='*').  The two
\* positionals are consumed together by the first run of positionals; later
\* positionals and unknown options are "unrecognized arguments" (exit 2).
\* Option abbreviations ("--in") and "--opt=value" are not modelled.
RECURSIVE ParseLoop(_, _, _, _)
ParseLoop(argv, cls, i, st) ==
    IF i > Len(argv) THEN
        IF ~st.consumed THEN ParseExit(2)
        ELSE IF st.extras # <<>> THEN ParseExit(2)
        ELSE ParseOk(st)
    ELSE IF cls[i] = "O" THEN
        IF argv[i] = OptInputFolder THEN
            IF i + 1 <= Len(argv) /\ cls[i + 1] = "A"
            THEN ParseLoop(argv, cls, i + 2, [st EXCEPT !.input_folder = argv[i + 1]])
            ELSE ParseExit(2)
        ELSE IF argv[i] \in OptHelp THEN ParseExit(0)
        ELSE ParseLoop(argv, cls, i + 1, [st EXCEPT !.extras = @ \o <<argv[i]>>])
    ELSE
        LET j == ChunkEnd(cls, i)
            vals == ChunkValues(argv, cls, i, j)
        IN  IF st.consumed
            THEN ParseLoop(argv, cls, j + 1, [st EXCEPT !.extras = @ \o vals])
            ELSE IF vals = <<>> THEN ParseLoop(argv, cls, j + 1, st)
            ELSE IF Head(vals) \notin ActionChoices THEN ParseExit(2)
            ELSE ParseLoop(argv, cls, j + 1,
                     [st EXCEPT !.consumed = TRUE, !.action = Head(vals),
                                !.zip_files = Tail(vals)])

parse_arguments(argv) ==
    ParseLoop(argv, Classes(argv, FALSE), 1,
              [consumed |-> FALSE, action |-> None, input_folder |-> None,
               zip_files |-> <<>>, extras |-> <<>>])

\* the interpreter hands the command's arguments after the script to sys.argv[1:]
ArgvOfCmd(cmd) == SubSeq(cmd, 3, Len(cmd))

\* ------------------------------------------------------------ cli_main.main
\* variant: --input_folder is never looked at
SourceFolder_IgnoresOverride(args) == INPUT_ZIP_FOLDER

\* source_folder = Path(args.input_folder) if args.input_folder else INPUT_ZIP_FOLDER
SourceFolder(args) ==
    IF Truthy(args.input_folder) THEN PathOf(args.input_folder) ELSE INPUT_ZIP_FOLDER

RECURSIVE PathsOf(_)
PathsOf(strs) ==
    IF strs = <<>> THEN <<>> ELSE <<PathOf(Head(strs))>> \o PathsOf(Tail(strs))

\* zip_paths: the named files, or all ZIPs of the source folder
SelectZipPaths(args) ==
    IF args.zip_files # <<>> THEN PathsOf(args.zip_files)
    ELSE GlobZip(SourceFolder(args))

IsPurge(args) == args.action = TokPurge

\* variant: the two library functions are swapped
ActionFunc_Swapped(args) ==
    IF args.action = TokPurge THEN "process_zip" ELSE "purge_zip_contents"

\* action_func = purge_zip_contents if is_purge else process_zip
ActionFunc(args) == IF IsPurge(args) THEN "purge_zip_contents" ELSE "process_zip"

ModeName(args) == IF IsPurge(args) THEN "PURGE" ELSE "PROCESSING"

\* print("\n--- {mode_name} {zip_file.name} ---"): an empty line and the header
HeaderLines(args, zip) == << <<>>, <<"--- ", ModeName(args), " ">> \o NameOf(zip) \o <<" ---">> >>

\* print("\n--- Final List of Main Symbols ---"); list_symbols_simple(...)
FinalLines == << <<>>, <<"--- Final List of Main Symbols ---">> >>

WarningLines(args) ==
    << <<"Warning: No ZIP files found in '">> \o StrOf(SourceFolder(args))
         \o <<"' to process/purge.">> >>

\* ------------------------------------------------------------------- state
VARIABLES
    \* the CLI process (at most one is followed at a time)
    p_state,        \* "none" | "started" | "running" | "exited"
    p_origin,       \* "none" | "gui" | "shell": who started it
    p_cmd,          \* the command line it was started with
    p_args,         \* main: args, the result of parse_arguments()
    p_zip_paths,    \* main: zip_paths
    p_i,            \* main: position of the for loop in zip_paths
    p_calls,        \* the calls made into library_manager, in order
    p_stdout,       \* lines written to stdout
    p_stderr,       \* lines written to stderr
    p_code,         \* exit code
    \* the GUI
    gui_pc,         \* "off" | "startup" | "idle" | "waiting" (in subprocess.run)
    all_selected_paths,
    checkbox,       \* the existing items checkbox_{i-1}, each with its value
    action_shown,   \* ACTION_SECTION_TAG is shown
    current_path,   \* the text of CURRENT_PATH_TAG
    log,            \* the text items of LOG_TEXT_TAG
    \* the running / last process_action call
    h_is_purge,     \* its is_purge argument
    h_active,       \* active_files, as handed to execute_library_action
    h_spawns,       \* subprocess.run calls it has made
    h_run,          \* what subprocess.run gave: completed process or exception
    h_ret,          \* what execute_library_action gave
    \* history: the handler or step taken last
    event

p_vars == <<p_state, p_origin, p_cmd, p_args, p_zip_paths, p_i, p_calls,
            p_stdout, p_stderr, p_code>>

g_vars == <<all_selected_paths, checkbox, action_shown, current_path>>

h_vars == <<h_is_purge, h_active, h_spawns, h_run, h_ret>>

vars == <<p_vars, gui_pc, g_vars, log, h_vars, event>>

NoArgs == [ParseExit(0) EXCEPT !.kind = "none"]

NoRun == [kind |-> "none", returncode |-> 0, stdout |-> <<>>, stderr |-> <<>>]

NoRet == [kind |-> "none", success |-> FALSE, output |-> <<>>]

ProcInit ==
    /\ p_state = "none"
    /\ p_origin = "none"
    /\ p_cmd = <<>>
    /\ p_args = NoArgs
    /\ p_zip_paths = <<>>
    /\ p_i = 1
    /\ p_calls = <<>>
    /\ p_stdout = <<>>
    /\ p_stderr = <<>>
    /\ p_code = 0

\* either the GUI is started (create_gui up to initial_load) or the CLI is
\* used from a shell
Init ==
    /\ ProcInit
    /\ gui_pc \in {"startup", "off"}
    /\ all_selected_paths = <<>>
    /\ checkbox = <<>>
    /\ action_shown = FALSE
    /\ current_path = <<"Current Folder: (Initializing...)">>
    /\ log = <<>>
    /\ h_is_purge = FALSE
    /\ h_active = <<>>
    /\ h_spawns = 0
    /\ h_run = NoRun
    /\ h_ret = NoRet
    /\ event = "init"

\* ------------------------------------------------------ the CLI process
PYTHON == <<"python">>

CLI_SCRIPT_PATH == <<"/", "scripts", "/", "cli_main", ".py">>

StartProcess(cmd, origin) ==
    /\ p_state' = "started"
    /\ p_origin' = origin
    /\ p_cmd' = cmd
    /\ p_args' = NoArgs
    /\ p_zip_paths' = <<>>
    /\ p_i' = 1
    /\ p_calls' = <<>>
    /\ p_stdout' = <<>>
    /\ p_stderr' = <<>>
    /\ p_code' = 0

Exit(code) ==
    /\ p_state' = "exited"
    /\ p_code' = code

\* main(), from parse_arguments() to the start of the loop
CliMainSelect ==
    /\ event' = "CliMainSelect"
    /\ p_state = "started"
    /\ LET args == parse_arguments(ArgvOfCmd(p_cmd))
           zips == SelectZipPaths(args)
       IN  /\ p_args' = args
           /\ IF args.kind = "exit" THEN
                  \* argparse printed the help (0) or usage and error (2)
                  /\ Exit(args.code)
                  /\ p_stdout' = IF args.code = 0 THEN << <<"usage">> >> ELSE <<>>
                  /\ p_stderr' = IF args.code = 0 THEN <<>> ELSE << <<"usage">>, <<"error">> >>
                  /\ UNCHANGED p_zip_paths
              ELSE IF zips = <<>> THEN
                  /\ Exit(0)
                  /\ p_stdout' = WarningLines(args) \o FinalLines
                  /\ UNCHANGED <<p_stderr, p_zip_paths>>
              ELSE
                  /\ p_state' = "running"
                  /\ p_zip_paths' = zips
                  /\ UNCHANGED <<p_stdout, p_stderr, p_code>>
    /\ UNCHANGED <<p_origin, p_cmd, p_i, p_calls>>
    /\ UNCHANGED <<gui_pc, g_vars, log, h_vars>>

\* one iteration of "for zip_file in zip_paths": the header and the call,
\* which returns or raises (library_manager is not part of these files)
CliMainIterate ==
    /\ event' = "CliMainIterate"
    /\ p_state = "running"
    /\ p_i <= Len(p_zip_paths)
    /\ p_stdout' = p_stdout \o HeaderLines(p_args, p_zip_paths[p_i])
    /\ p_calls' = Append(p_calls, [func |-> ActionFunc(p_args), zip |-> p_zip_paths[p_i]])
    /\ \E raises \in BOOLEAN :
          IF raises THEN
              /\ Exit(1)
              /\ p_stderr' = p_stderr \o << <<"Traceback (most recent call last):">> >>
              /\ UNCHANGED p_i
          ELSE
              /\ p_i' = p_i + 1
              /\ UNCHANGED <<p_state, p_code, p_stderr>>
    /\ UNCHANGED <<p_origin, p_cmd, p_args, p_zip_paths>>
    /\ UNCHANGED <<gui_pc, g_vars, log, h_vars>>

\* after the loop: the final symbol list
CliMainFinal ==
    /\ event' = "CliMainFinal"
    /\ p_state = "running"
    /\ p_i > Len(p_zip_paths)
    /\ p_stdout' = p_stdout \o FinalLines
    /\ Exit(0)
    /\ UNCHANGED <<p_origin, p_cmd, p_args, p_zip_paths, p_i, p_calls, p_stderr>>
    /\ UNCHANGED <<gui_pc, g_vars, log, h_vars>>

\* ---------------------------------------------------- the CLI from a shell
RelC == <<"c", ".zip">>

AbsA == <<"/", "in", "/", "a", ".zip">>

AbsB == <<"/", "in", "/", "b", ".zip">>

AbsC == <<"/", "lib", "/", "c", ".zip">>

DashX == <<"-", "x", ".zip">>

\* command lines a user types (after "python cli_main.py")
\* (none with zip files on both sides of an option: argparse versions differ
\* on those)
ShellCommands ==
    { <<>>,
      <<TokProcess>>,
      <<TokPurge>>,
      <<TokProcess, AbsA>>,
      <<TokPurge, AbsB, AbsC>>,
      <<TokPurge, AbsC, AbsA>>,
      <<TokProcess, <<".", "/">> \o RelC>>,
      <<TokPurge, RelC, RelC>>,
      <<TokProcess, TokPurge>>,
      <<AbsA>>,
      <<OptInputFolder, <<"/", "lib">>, TokProcess>>,
      <<OptInputFolder, <<"/", "empty">>, TokPurge>>,
      <<OptInputFolder, <<"/", "gone">>, TokPurge>>,
      <<TokPurge, OptInputFolder, <<>> >>,
      <<TokProcess, OptInputFolder, <<"/", "in", "/">> >>,
      <<TokPurge, AbsA, OptInputFolder, <<"/", "lib">> >>,
      <<TokProcess, AbsB, OptInputFolder, <<>> >>,
      <<TokPurge, OptInputFolder>>,
      <<TokPurge, DashX>>,
      <<TokPurge, DashDash, DashX>>,
      <<TokProcess, <<>> >>,
      <<<<"-", "h">>>> }

ShellRun(argv) ==
    /\ event' = "ShellRun"
    /\ gui_pc = "off"
    /\ p_state = "none"
    /\ StartProcess(<<PYTHON, CLI_SCRIPT_PATH>> \o argv, "shell")
    /\ UNCHANGED <<gui_pc, g_vars, log, h_vars>>

\* the shell collects the exit status
ShellReap ==
    /\ event' = "ShellReap"
    /\ p_origin = "shell"
    /\ p_state = "exited"
    /\ p_state' = "none"
    /\ UNCHANGED <<p_origin, p_cmd, p_args, p_zip_paths, p_i, p_calls, p_stdout,
                   p_stderr, p_code>>
    /\ UNCHANGED <<gui_pc, g_vars, log, h_vars>>

\* --------------------------------------------------------- gui_app: the log
\* the theme log_message picks from the entry's content
ThemeOf(entry, is_cli_output) ==
    IF is_cli_output THEN "cli_output_theme"
    ELSE IF Range(entry) \cap {"[FAIL]", "[ERROR]", "CRITICAL ERROR"} # {}
         THEN "error_log_theme"
    ELSE IF Range(entry) \cap {"[OK]", "[SUCCESS]"} # {} THEN "success_log_theme"
    ELSE "default_log_theme"

\* log_message: the text item it adds to the log
LogItem(user_data, add_timestamp, is_cli_output) ==
    IF user_data = <<>> THEN [text |-> <<" ">>, theme |-> "none"]
    ELSE LET log_entry == IF add_timestamp THEN <<"[%H:%M:%S]", " ">> \o user_data
                          ELSE user_data
         IN  [text |-> log_entry, theme |-> ThemeOf(log_entry, is_cli_output)]

Msg(user_data) == LogItem(user_data, TRUE, FALSE)

RECURSIVE CliItems(_)
CliItems(lines) ==
    IF lines = <<>> THEN <<>>
    ELSE <<LogItem(Head(lines), FALSE, TRUE)>> \o CliItems(Tail(lines))

LogRoom == Len(log) < MaxLog

\* clear_log
ClearLog ==
    /\ event' = "ClearLog"
    /\ gui_pc = "idle"
    /\ log' = <<Msg(<<"Log cleared.">>), Msg(<<"Ready.">>)>>
    /\ UNCHANGED <<p_vars, gui_pc, g_vars, h_vars>>

\* ------------------------------------------------- gui_app: the file list
\* build_file_list_ui: the new all_selected_paths and the new checkboxes
BuildPaths(zip_paths) == zip_paths

BuildBoxes(zip_paths) == [i \in 1..Len(zip_paths) |-> TRUE]

build_file_list_ui(zip_paths) ==
    /\ all_selected_paths' = BuildPaths(zip_paths)
    /\ checkbox' = BuildBoxes(zip_paths)

\* the user clicks one checkbox
ToggleCheckbox(i) ==
    /\ event' = "ToggleCheckbox"
    /\ gui_pc \in {"idle", "waiting"}
    /\ i \in DOMAIN checkbox
    /\ checkbox' = [checkbox EXCEPT ![i] = ~@]
    /\ UNCHANGED <<p_vars, gui_pc, all_selected_paths, action_shown, current_path,
                   log, h_vars>>

\* toggle_all_checkboxes ("Select All" / "Deselect All")
toggle_all_checkboxes(value) ==
    /\ event' = "toggle_all_checkboxes"
    /\ gui_pc = "idle"
    /\ action_shown
    /\ checkbox' = [i \in DOMAIN checkbox |->
                      IF i \in 1..Len(all_selected_paths) THEN value ELSE checkbox[i]]
    /\ UNCHANGED <<p_vars, gui_pc, all_selected_paths, action_shown, current_path,
                   log, h_vars>>

\* ------------------------------------------------ gui_app: loading a folder
\* what the file system does under the handler: nothing, the folder is gone
\* by the time it is scanned, or scanning it raises
Envs == {"ok", "gone", "scan_error"}

\* the folders the native dialog can return, and "" for a cancelled dialog
DialogChoices == {<<>>, <<"/", "in">>, <<"/", "lib">>, <<"/", "empty">>}

\* select_zip_folder
select_zip_folder(folder_path_str) ==
    IF folder_path_str = <<>> THEN <<>> ELSE GlobZip(PathOf(folder_path_str))

\* valid_paths = [p for p in paths if p.exists()]
ValidPaths(paths) == SelectSeq(paths, Exists)

\* reload_folder_from_path
reload_folder_from_path(folder_path_str, env, log0) ==
    LET folder_path == Resolve(PathOf(folder_path_str))
        valid_paths == ValidPaths(GlobZip(folder_path))
    IN  IF env = "gone" \/ ~IsDir(folder_path) THEN
            /\ log' = Append(log0, Msg(<<"ERROR: Folder not found at '">>
                                       \o StrOf(folder_path) \o <<"'.">>))
            /\ build_file_list_ui(<<>>)
            /\ UNCHANGED <<action_shown, current_path>>
        ELSE IF env = "scan_error" THEN
            /\ log' = Append(log0, Msg(<<"ERROR scanning folder: ">>))
            /\ build_file_list_ui(<<>>)
            /\ UNCHANGED <<action_shown, current_path>>
        ELSE
            /\ current_path' = <<"Current Folder: ">> \o StrOf(folder_path)
            /\ action_shown' = (valid_paths # <<>>)
            /\ build_file_list_ui(valid_paths)
            /\ log' = log0

\* show_native_folder_dialog ("Open Folder...")
show_native_folder_dialog(choice, env) ==
    /\ event' = "show_native_folder_dialog"
    /\ gui_pc = "idle"
    /\ LogRoom
    /\ LET paths == select_zip_folder(choice)
       IN  IF paths = <<>> THEN
               /\ log' = Append(log, Msg(<<"Folder selection cancelled or no ZIP files found.">>))
               /\ action_shown' = FALSE
               /\ build_file_list_ui(<<>>)
               /\ current_path' = <<"Current Folder: (None Selected)">>
           ELSE
               reload_folder_from_path(
                   StrOf(Resolve(ParentOf(paths[1]))), env,
                   Append(log, Msg(<<"Found ", ToString(Len(paths)), " ZIP file(s).">>)))
    /\ UNCHANGED <<p_vars, gui_pc, h_vars>>

\* initial_load, the last step of create_gui before the event loop
initial_load(env) ==
    /\ event' = "initial_load"
    /\ gui_pc = "startup"
    /\ gui_pc' = "idle"
    /\ LET target_folder == Resolve(INPUT_ZIP_FOLDER)
           valid_paths == IF env = "scan_error" THEN <<>>
                          ELSE ValidPaths(GlobZip(target_folder))
           checking == Msg(<<"Checking default folder: '">> \o StrOf(target_folder) \o <<"'">>)
       IN  IF env = "gone" \/ ~IsDir(target_folder) THEN
               /\ log' = Append(log, Msg(<<"ERROR: Input folder not found at '">>
                                         \o StrOf(target_folder)
                                         \o <<"'. Skipping initial load.">>))
               /\ current_path' = <<"Current Folder: (Path Error)">>
               /\ UNCHANGED <<all_selected_paths, checkbox, action_shown>>
           ELSE
               /\ current_path' = <<"Current Folder: ">> \o StrOf(target_folder)
               /\ log' = log \o <<checking>>
                         \o (IF env = "scan_error"
                             THEN <<Msg(<<"ERROR scanning folder: ">>)>> ELSE <<>>)
                         \o (IF valid_paths # <<>>
                             THEN <<Msg(<<"Successfully loaded ", ToString(Len(valid_paths)),
                                          " ZIP file(s) from default path.">>)>>
                             ELSE <<Msg(<<"No ZIP files found in the default folder.">>)>>)
               /\ action_shown' = (IF valid_paths # <<>> THEN TRUE ELSE action_shown)
               /\ build_file_list_ui(valid_paths)
    /\ UNCHANGED <<p_vars, h_vars>>

\* -------------------------------------------- gui_app: running the CLI
\* get_active_files_for_processing: the paths whose checkbox exists and is set
RECURSIVE ActiveFrom(_, _, _)
ActiveFrom(paths, boxes, i) ==
    IF i > Len(paths) THEN <<>>
    ELSE (IF i \in DOMAIN boxes /\ boxes[i] THEN <<paths[i]>> ELSE <<>>)
         \o ActiveFrom(paths, boxes, i + 1)

\* variant: the checkboxes are not consulted
get_active_files_IgnoresCheckboxes == all_selected_paths

get_active_files_for_processing == ActiveFrom(all_selected_paths, checkbox, 1)

RECURSIVE StrsOf(_)
StrsOf(paths) ==
    IF paths = <<>> THEN <<>> ELSE <<StrOf(Head(paths))>> \o StrsOf(Tail(paths))

\* action = "process"; if is_purge: action = "purge"
ActionToken(is_purge) == IF is_purge THEN TokPurge ELSE TokProcess

\* variant: the command carries no action word
BuildCmd_NoAction(paths, is_purge) == <<PYTHON, CLI_SCRIPT_PATH>> \o StrsOf(paths)

\* cmd = [python_exe, str(CLI_SCRIPT_PATH), action] + [str(p) for p in paths]
BuildCmd(paths, is_purge) ==
    <<PYTHON, CLI_SCRIPT_PATH, ActionToken(is_purge)>> \o StrsOf(paths)

\* the exceptions subprocess.run raises when it cannot start the process
SpawnErrors == {"FileNotFoundError", "PermissionError"}

Completed(code, out, err) ==
    [kind |-> "completed", returncode |-> code, stdout |-> out, stderr |-> err]

Raised(exc) == [kind |-> exc, returncode |-> 0, stdout |-> <<>>, stderr |-> <<>>]

Return(success, output) == [kind |-> "return", success |-> success, output |-> output]

\* variant: the exit code is not looked at
ReturnOfCompleted_IgnoresCode(run) == Return(TRUE, run.stdout \o run.stderr)

\* the body of the try block, given a completed process
ReturnOfCompleted(run) ==
    LET output == run.stdout \o run.stderr
    IN  IF run.returncode = 0 THEN Return(TRUE, output)
        ELSE Return(FALSE,
                    << <<"--- CLI ERROR START ---">>,
                       <<"CLI failed with exit code ", ToString(run.returncode)>> >>
                    \o output
                    \o << <<"--- CLI ERROR END ---">> >>)

\* the except clauses
ReturnOfException(exc) ==
    IF exc = "FileNotFoundError"
    THEN Return(FALSE, << <<"ERROR: Python interpreter or CLI script not found.">> >>)
    ELSE Return(FALSE, << <<"CRITICAL ERROR", " during CLI execution: ", exc>> >>)

\* execute_library_action, from what subprocess.run gave to what it returns
ExecReturn(run) ==
    IF run.kind = "completed" THEN ReturnOfCompleted(run) ELSE ReturnOfException(run.kind)

ActionName(is_purge) == IF is_purge THEN "PURGE" ELSE "PROCESS"

InitiatingItem(is_purge, n) ==
    Msg(<<"--- Initiating ", ActionName(is_purge), " for ", ToString(n),
          " active file(s) ---">>)

StatusItem(is_purge, success) ==
    IF success THEN Msg(<<"[OK]", " ", ActionName(is_purge), " SUCCESSFUL.">>)
    ELSE Msg(<<"[FAIL]", " ", ActionName(is_purge), " FAILED. See output above.">>)

\* process_action after execute_library_action returned: the output line by
\* line, the status, a separator and an empty line
ResultItems(is_purge, ret) ==
    CliItems(ret.output)
    \o <<StatusItem(is_purge, ret.success),
         LogItem(<<"------------------------------------------------------">>, FALSE, FALSE),
         LogItem(<<>>, FALSE, FALSE)>>

NoActiveItem == Msg(<<"ERROR: No active ZIP files selected for action.">>)

\* variant: the empty selection is not refused
NoActiveFiles_NeverRefuses(active_files) == FALSE

\* if not active_files
NoActiveFiles(active_files) == active_files = <<>>

\* variant: the child is not waited for
SubprocessFinished_NoWait == p_state \in {"started", "running", "exited"}

\* subprocess.run returns when the child has exited
SubprocessFinished == p_state = "exited"

\* process_action ("PROCESS / IMPORT", "PURGE / DELETE") up to the point where
\* subprocess.run waits for the child; all of it when nothing is spawned
process_action(is_purge) ==
    /\ event' = "process_action"
    /\ gui_pc = "idle"
    /\ action_shown
    /\ LogRoom
    /\ p_state = "none"
    /\ LET active_files == get_active_files_for_processing
       IN  /\ h_is_purge' = is_purge
           /\ h_active' = active_files
           /\ IF NoActiveFiles(active_files) THEN
                  /\ log' = Append(log, NoActiveItem)
                  /\ h_spawns' = 0
                  /\ h_run' = NoRun
                  /\ h_ret' = NoRet
                  /\ UNCHANGED <<p_vars, gui_pc>>
              ELSE
                  \E outcome \in SpawnErrors \cup {"started"} :
                      /\ h_spawns' = 1
                      /\ IF outcome = "started" THEN
                             /\ StartProcess(BuildCmd(active_files, is_purge), "gui")
                             /\ gui_pc' = "waiting"
                             /\ h_run' = NoRun
                             /\ h_ret' = NoRet
                             /\ log' = Append(log, InitiatingItem(is_purge, Len(active_files)))
                         ELSE
                             /\ h_run' = Raised(outcome)
                             /\ h_ret' = ExecReturn(Raised(outcome))
                             /\ log' = Append(log, InitiatingItem(is_purge, Len(active_files)))
                                       \o ResultItems(is_purge, ExecReturn(Raised(outcome)))
                             /\ UNCHANGED <<p_vars, gui_pc>>
    /\ UNCHANGED g_vars

\* process_action from the return of subprocess.run to its end
process_action_result ==
    /\ event' = "process_action_result"
    /\ gui_pc = "waiting"
    /\ SubprocessFinished
    /\ LET run == Completed(p_code, p_stdout, p_stderr)
           ret == ExecReturn(run)
       IN  /\ h_run' = run
           /\ h_ret' = ret
           /\ log' = log \o ResultItems(h_is_purge, ret)
    /\ gui_pc' = "idle"
    /\ p_state' = "none"
    /\ UNCHANGED <<p_origin, p_cmd, p_args, p_zip_paths, p_i, p_calls, p_stdout,
                   p_stderr, p_code>>
    /\ UNCHANGED <<g_vars, h_is_purge, h_active, h_spawns>>

\* ------------------------------------------------------------ specification
Next ==
    \/ \E env \in Envs : initial_load(env)
    \/ \E choice \in DialogChoices, env \in Envs : show_native_folder_dialog(choice, env)
    \/ \E i \in 1..Len(all_selected_paths) : ToggleCheckbox(i)
    \/ \E value \in BOOLEAN : toggle_all_checkboxes(value)
    \/ ClearLog
    \/ \E is_purge \in BOOLEAN : process_action(is_purge)
    \/ process_action_result
    \/ \E argv \in ShellCommands : ShellRun(argv)
    \/ ShellReap
    \/ CliMainSelect
    \/ CliMainIterate
    \/ CliMainFinal

Spec == Init /\ [][Next]_vars

\* ================================================================== claims

\* ----------------------------------------------------------------------- C1
\* all "*.zip" entries of a folder, as a set
ZipFilesIn(folder) ==
    IF Resolve(folder) \in DOMAIN Listing
    THEN {Child(folder, n) : n \in {m \in Range(Listing[Resolve(folder)]) : Last(m) = ".zip"}}
    ELSE {}

\* the selection is the named files, in order, when files are named, and
\* otherwise all ZIPs of the given folder; every call is on a selected file
SelectionIs(folder) ==
    /\ p_args.zip_files # <<>> =>
          /\ Len(p_zip_paths) = Len(p_args.zip_files)
          /\ \A k \in 1..Len(p_zip_paths) : p_zip_paths[k] = PathOf(p_args.zip_files[k])
    /\ p_args.zip_files = <<>> =>
          /\ Range(p_zip_paths) = ZipFilesIn(folder)
          /\ Len(p_zip_paths) = Cardinality(ZipFilesIn(folder))
    /\ \A k \in 1..Len(p_calls) : p_calls[k].zip \in Range(p_zip_paths)

\* C1 as stated: the archives main() acts upon are the zip_files given, or,
\* with none given, all ZIPs of the source folder, which is --input_folder
\* whenever that option is given and INPUT_ZIP_FOLDER otherwise.
C1_AsStated ==
    p_args.kind = "ok" =>
        SelectionIs(IF p_args.input_folder # None THEN PathOf(p_args.input_folder)
                    ELSE INPUT_ZIP_FOLDER)

\* C1 amended: the source folder is --input_folder when the option is given
\* with a non-empty value, and INPUT_ZIP_FOLDER when it is absent or empty.
C1_SelectionByArguments ==
    p_args.kind = "ok" =>
        SelectionIs(IF p_args.input_folder # None /\ p_args.input_folder # <<>>
                    THEN PathOf(p_args.input_folder) ELSE INPUT_ZIP_FOLDER)

\* main() ran to its end on "--input_folder ''" without zip_files and acted
\* on the ZIPs of INPUT_ZIP_FOLDER
C1_Witness ==
    /\ p_state = "exited" /\ p_code = 0 /\ p_args.kind = "ok"
    /\ p_args.input_folder = <<>> /\ p_args.zip_files = <<>>
    /\ Len(p_calls) = 2
    /\ \A k \in 1..2 : ParentOf(p_calls[k].zip) = INPUT_ZIP_FOLDER

\* ----------------------------------------------------------------------- C2
\* C2: every call goes to purge_zip_contents when the action is 'purge' and
\* to process_zip when it is 'process', the k-th call is on the k-th selected
\* ZIP, and a run in which no call raised (exit code 0) has called each
\* selected ZIP exactly once, in the order of the list.
C2_Dispatch ==
    p_args.kind = "ok" =>
        /\ Len(p_calls) <= Len(p_zip_paths)
        /\ \A k \in 1..Len(p_calls) :
              /\ k <= Len(p_zip_paths) => p_calls[k].zip = p_zip_paths[k]
              /\ p_args.action = TokPurge => p_calls[k].func = "purge_zip_contents"
              /\ p_args.action = TokProcess => p_calls[k].func = "process_zip"
        /\ (p_state \in {"exited", "none"} /\ p_code = 0) => Len(p_calls) = Len(p_zip_paths)

\* a purge of two ZIPs ran to its end
C2_Witness ==
    /\ p_state = "exited" /\ p_code = 0 /\ p_args.kind = "ok"
    /\ p_args.action = TokPurge
    /\ Len(p_zip_paths) = 2 /\ Len(p_calls) = 2
    /\ p_calls[1].zip # p_calls[2].zip

\* ----------------------------------------------------------------------- C3
CheckedIdx ==
    {i \in 1..Len(all_selected_paths) : i \in DOMAIN checkbox /\ checkbox[i]}

KthChecked(k) ==
    CHOOSE i \in CheckedIdx : Cardinality({j \in CheckedIdx : j <= i}) = k

\* the loaded list is the ZIPs of the one folder shown as current
ListIsCurrentFolder ==
    all_selected_paths # <<>> =>
        /\ Range(all_selected_paths) = ZipFilesIn(ParentOf(all_selected_paths[1]))
        /\ current_path = <<"Current Folder: ">> \o StrOf(ParentOf(all_selected_paths[1]))

\* C3: whatever folders were loaded and boxes toggled before, the list
\* process_action hands to execute_library_action is the loaded list's checked
\* entries, in list order, and the loaded list is that of the current folder.
C3_OnlyCheckedFiles ==
    [][ event' = "process_action" =>
          /\ ListIsCurrentFolder
          /\ Len(h_active') = Cardinality(CheckedIdx)
          /\ \A k \in 1..Cardinality(CheckedIdx) :
                k <= Len(h_active') => h_active'[k] = all_selected_paths[KthChecked(k)]
          /\ p_state' = "started" =>
                /\ Len(p_cmd') = 3 + Cardinality(CheckedIdx)
                /\ \A k \in 1..Cardinality(CheckedIdx) :
                      3 + k <= Len(p_cmd') =>
                          p_cmd'[3 + k] = StrOf(all_selected_paths[KthChecked(k)])
      ]_vars

\* after another folder had been shown, the second of two loaded files alone
\* was handed over
C3_Witness ==
    /\ event = "process_action" /\ p_state = "started"
    /\ Len(all_selected_paths) = 2
    /\ ParentOf(all_selected_paths[1]) = DirLib
    /\ checkbox = <<FALSE, TRUE>>
    /\ h_active = <<all_selected_paths[2]>>

\* ----------------------------------------------------------------------- C4
\* C4: the command is [python, script, action, path_1..path_n] with action
\* 'purge' iff is_purge; the CLI takes the action from it and exactly the
\* GUI's paths as zip_files, selects exactly those, and calls the matching
\* library function on them only, never on the action word.
C4_HandOff ==
    (p_origin = "gui" /\ p_state # "none") =>
        /\ Len(p_cmd) = 3 + Len(h_active)
        /\ Len(p_cmd) >= 3 =>
              /\ p_cmd[1] = PYTHON /\ p_cmd[2] = CLI_SCRIPT_PATH
              /\ p_cmd[3] = (IF h_is_purge THEN <<"purge">> ELSE <<"process">>)
        /\ \A k \in 1..Len(h_active) : 3 + k <= Len(p_cmd) => p_cmd[3 + k] = StrOf(h_active[k])
        /\ p_state # "started" =>
              /\ p_args.kind = "ok"
              /\ p_args.action = (IF h_is_purge THEN <<"purge">> ELSE <<"process">>)
              /\ Len(p_args.zip_files) = Len(h_active)
              /\ p_zip_paths = h_active
              /\ \A k \in 1..Len(p_calls) :
                    /\ p_calls[k].func = (IF h_is_purge THEN "purge_zip_contents"
                                          ELSE "process_zip")
                    /\ k <= Len(h_active) => p_calls[k].zip = h_active[k]
                    /\ StrOf(p_calls[k].zip) \notin ActionChoices
              /\ (p_state = "exited" /\ p_code = 0) => Len(p_calls) = Len(h_active)

\* PURGE was pressed with one of two files checked and the CLI purged it
C4_Witness ==
    /\ p_origin = "gui" /\ p_state = "exited" /\ p_code = 0
    /\ h_is_purge
    /\ Len(all_selected_paths) = 2 /\ Len(h_active) = 1
    /\ p_calls = <<[func |-> "purge_zip_contents", zip |-> h_active[1]]>>

\* ----------------------------------------------------------------------- C5
\* C5: execute_library_action always returns; the result is (True,
\* stdout+stderr) exactly when the process ran and exited with 0; on another
\* exit code it is False with the exit code and the output between the START
\* and END markers; when the process could not be run it is False with a
\* message.
C5_OutcomeAsValue ==
    h_run.kind # "none" =>
        /\ h_ret.kind = "return"
        /\ h_ret.success <=> (h_run.kind = "completed" /\ h_run.returncode = 0)
        /\ h_ret.success => h_ret.output = h_run.stdout \o h_run.stderr
        /\ (h_run.kind = "completed" /\ h_run.returncode # 0) =>
              /\ Len(h_ret.output) = Len(h_run.stdout) + Len(h_run.stderr) + 3
              /\ Len(h_ret.output) >= 3 =>
                    /\ h_ret.output[1] = <<"--- CLI ERROR START ---">>
                    /\ h_ret.output[2] = <<"CLI failed with exit code ",
                                           ToString(h_run.returncode)>>
                    /\ SubSeq(h_ret.output, 3, Len(h_ret.output) - 1)
                          = h_run.stdout \o h_run.stderr
                    /\ h_ret.output[Len(h_ret.output)] = <<"--- CLI ERROR END ---">>
        /\ h_run.kind \notin {"completed", "none"} =>
              /\ ~h_ret.success
              /\ Len(h_ret.output) = 1

\* the CLI failed with exit code 1 and the failure came back as a value
C5_Witness ==
    /\ h_run.kind = "completed" /\ h_run.returncode = 1
    /\ h_ret.kind = "return" /\ ~h_ret.success
    /\ Len(h_run.stdout) > 0 /\ Len(h_run.stderr) > 0

\* ----------------------------------------------------------------------- C6
HasStatus(items, from) ==
    \E k \in from..Len(items) : Range(items[k].text) \cap {"[OK]", "[FAIL]"} # {}

\* C6: a process_action call spawns at most one CLI process, with all active
\* files on its one command line; only process_action spawns for the GUI; the
\* result is logged only once the process has exited, as OK or FAIL by its exit
\* code; and with that the call ends, whatever the result, without a second
\* run.
C6_OneSubprocess ==
    [][ /\ h_spawns' <= 1
        /\ (p_state' = "started" /\ p_origin' = "gui" /\ p_state # "started") =>
              /\ event' = "process_action"
              /\ p_state = "none"
              /\ h_spawns' = 1
              /\ Len(p_cmd') = 3 + Len(h_active')
        /\ (event' = "process_action_result") =>
              /\ p_state = "exited"
              /\ h_run'.returncode = p_code /\ h_run'.stdout = p_stdout
              /\ h_run'.stderr = p_stderr
              /\ HasStatus(log', Len(log) + 1)
              /\ \A k \in (Len(log) + 1)..Len(log') :
                    /\ "[OK]" \in Range(log'[k].text) => p_code = 0
                    /\ "[FAIL]" \in Range(log'[k].text) => p_code # 0
              /\ gui_pc' = "idle" /\ p_state' = "none" /\ h_spawns' = 1
        /\ (gui_pc = "waiting" /\ event' # "process_action_result") => log' = log
      ]_vars

\* a run that failed was logged as failed and not run again
C6_Witness ==
    /\ event = "process_action_result"
    /\ gui_pc = "idle" /\ p_state = "none" /\ h_spawns = 1
    /\ h_run.kind = "completed" /\ h_run.returncode = 1
    /\ Len(h_active) = 2
    /\ HasStatus(log, 1)

\* ----------------------------------------------------------------------- C7
NoneChecked ==
    \A i \in 1..Len(all_selected_paths) : ~(i \in DOMAIN checkbox /\ checkbox[i])

\* C7: process_action with no checked file only adds the line 'ERROR: No
\* active ZIP files selected for action.' to the log and starts no process;
\* every CLI process the GUI starts is given at least one ZIP path, parses
\* it into a non-empty zip_files and so never scans the input folder.
C7_NoEmptyInvocation ==
    [][ /\ (event' = "process_action" /\ NoneChecked) =>
              /\ Len(log') = Len(log) + 1
              /\ log'[Len(log')].text = <<"[%H:%M:%S]", " ",
                     "ERROR: No active ZIP files selected for action.">>
              /\ UNCHANGED p_vars
              /\ gui_pc' = "idle"
              /\ h_spawns' = 0
        /\ (p_origin' = "gui" /\ p_state' # "none") =>
              /\ Len(p_cmd') > 3
              /\ p_state' # "started" =>
                    /\ p_args'.kind = "ok"
                    /\ p_args'.zip_files # <<>>
      ]_vars

\* both loaded files were unchecked when an action button was pressed
C7_Witness ==
    /\ event = "process_action"
    /\ Len(all_selected_paths) = 2 /\ checkbox = <<FALSE, FALSE>>
    /\ h_active = <<>> /\ h_spawns = 0
    /\ p_state = "none"
    /\ log # <<>> /\ log[Len(log)] = NoActiveItem

====
